---------------------------- MODULE Spec2Model ----------------------------
(***************************************************************************)
(* Model of the TAIFEX large-trader open-interest updater.                 *)
(*                                                                         *)
(*   script A: src/scripts_update_futures.py  (POST query per contract)    *)
(*   script B: src/scripts/update_futures.py  (one static table, grouped)  *)
(*                                                                         *)
(* Both scripts end by rewriting docs/futures_data.json, which carries a   *)
(* rolling history of daily snapshots.                                     *)
(*                                                                         *)
(* Text is modelled as a sequence of characters, one string per            *)
(* character.  The CJK characters the code tests for are written with      *)
(* ASCII names:                                                            *)
(*   "SUO" "YOU" = 所有     "QI" "YUE" = 契約     "KI" "HUO" = 期貨        *)
(*   "RI" "KI"   = 日期     "FC" = the full-width colon                    *)
(*   "NL" = newline         "NB" = non-breaking space (\xa0)               *)
(* Date strings YYYYMMDD are modelled by the number they spell (they are   *)
(* always 8 digits, so the order of the numbers is the order of the        *)
(* strings); None is modelled by 0.                                        *)
(***************************************************************************)
EXTENDS Integers, Sequences, FiniteSets, TLC

VARIABLES
    file,       \* content of docs/futures_data.json
    prior,      \* content of the file as the most recent run found it
    now,        \* the day the wall clock shows (1 = 2024-01-01)
    lastRun,    \* how the most recent run of a script ended
    pc,         \* script A, request by request: position in main
    code_map,   \* script A: ticker -> contract code
    idx,        \* script A: index of the target being processed
    items,      \* script A: items appended so far
    date_out,   \* script A: date_out (0 = None)
    sent,       \* script A: payload variants POSTed by the current call
    resp,       \* script A: the variable r of _post_large_trader
    lastNet,    \* script A: the last thing done on the network
    doc,        \* parsers: the HTML document handed to a parser
    parsedA,    \* parsers: what script A's parser made of doc
    parsedB     \* parsers: what script B's parser made of doc

fileVars  == <<file, prior, now, lastRun>>
stepVars  == <<pc, code_map, idx, items, date_out, sent, resp, lastNet>>
parseVars == <<doc, parsedA, parsedB>>
vars      == <<file, prior, now, lastRun, pc, code_map, idx, items, date_out, sent,
               resp, lastNet, doc, parsedA, parsedB>>

-----------------------------------------------------------------------------
(* Text *)

DigitChars == {"0", "1", "2", "3", "4", "5", "6", "7", "8", "9"}

IsDigit(c) == c \in DigitChars

DigitVal(c) ==
    CASE c = "0" -> 0 [] c = "1" -> 1 [] c = "2" -> 2 [] c = "3" -> 3
      [] c = "4" -> 4 [] c = "5" -> 5 [] c = "6" -> 6 [] c = "7" -> 7
      [] c = "8" -> 8 [] c = "9" -> 9

DigitChar(n) ==
    CASE n = 0 -> "0" [] n = 1 -> "1" [] n = 2 -> "2" [] n = 3 -> "3"
      [] n = 4 -> "4" [] n = 5 -> "5" [] n = 6 -> "6" [] n = 7 -> "7"
      [] n = 8 -> "8" [] n = 9 -> "9"

\* pat in s
Contains(s, pat) ==
    \E i \in 1..(Len(s) - Len(pat) + 1) : SubSeq(s, i, i + Len(pat) - 1) = pat

\* s.replace(c, "")
RECURSIVE Without(_, _)
Without(s, c) ==
    IF s = <<>> THEN <<>>
    ELSE IF Head(s) = c THEN Without(Tail(s), c)
    ELSE <<Head(s)>> \o Without(Tail(s), c)

\* int() of a run of digits
RECURSIVE DecimalValue(_)
DecimalValue(s) ==
    IF s = <<>> THEN 0
    ELSE DecimalValue(SubSeq(s, 1, Len(s) - 1)) * 10 + DigitVal(s[Len(s)])

\* where a regex search for -?\d... first matches in s (0: nowhere)
SignedStart(s) ==
    LET starts == {i \in 1..Len(s) :
                      \/ IsDigit(s[i])
                      \/ s[i] = "-" /\ i < Len(s) /\ IsDigit(s[i + 1])}
    IN  IF starts = {} THEN 0
        ELSE CHOOSE i \in starts : \A j \in starts : i <= j

\* the last index of the longest run from j of characters in ok
RunEnd(s, j, ok) ==
    LET ends == {e \in j..Len(s) : \A k \in (j + 1)..e : s[k] \in ok}
    IN  CHOOSE e \in ends : \A d \in ends : d <= e


\* the digits of a match that starts at s[i]: an optional sign, then the
\* longest run of characters in ok
MatchDigits(s, i, ok) ==
    LET From(j) == SubSeq(s, j, RunEnd(s, j, ok))
    IN  From(IF s[i] = "-" THEN i + 1 ELSE i)

\* int() of a match that starts at s[i] and whose digits spell v
Signed(s, i, v) == IF s[i] = "-" THEN 0 - v ELSE v

\* script A: _to_int.  re.search(r"-?\d[\d,]*") on s with \xa0 replaced by a
\* space (neither is a digit, a comma or a sign), commas removed, int()
ToInt(s) ==
    LET At(i) ==
          IF i = 0 THEN 0
          ELSE Signed(s, i,
                  DecimalValue(Without(MatchDigits(s, i, DigitChars \cup {","}),
                                       ",")))
    IN  At(SignedStart(s))

\* script B: first_int.  commas removed first, then re.search(r"-?\d+")
FirstInt(s) ==
    LET In(t) ==
          LET At(i) ==
                IF i = 0 THEN 0
                ELSE Signed(t, i, DecimalValue(MatchDigits(t, i, DigitChars)))
          IN  At(SignedStart(t))
    IN  In(Without(s, ","))

-----------------------------------------------------------------------------
(* Dates *)

WhiteChars == {" ", "NL", "NB"}

\* s[i..] starts with ny digits "/" 2 digits "/" 2 digits
DateAt(s, i, ny) ==
    /\ i >= 1
    /\ i + ny + 5 <= Len(s)
    /\ \A k \in i..(i + ny - 1) : IsDigit(s[k])
    /\ s[i + ny] = "/"
    /\ IsDigit(s[i + ny + 1]) /\ IsDigit(s[i + ny + 2])
    /\ s[i + ny + 3] = "/"
    /\ IsDigit(s[i + ny + 4]) /\ IsDigit(s[i + ny + 5])

\* the string f"{y}{mo}{d}" for the date at s[i..] with an ny-digit year,
\* add added to the year
Ymd(s, i, ny, add) ==
    (DecimalValue(SubSeq(s, i, i + ny - 1)) + add) * 10000
      + DecimalValue(SubSeq(s, i + ny + 1, i + ny + 2)) * 100
      + DecimalValue(SubSeq(s, i + ny + 4, i + ny + 5))

Least(S) == CHOOSE i \in S : \A j \in S : i <= j

\* where a date with a year of the given numbers of digits first starts in s
\* (0: nowhere)
FirstDate(s, years) ==
    LET at == {i \in 1..Len(s) : \E ny \in years : DateAt(s, i, ny)}
    IN  IF at = {} THEN 0 ELSE Least(at)

\* script A: _format_yyyymmdd; today is what datetime.now() formats to
FormatYyyymmdd(date_str, today) ==
    LET Format(g, r) ==
          IF g # 0 THEN Ymd(date_str, g, 4, 0)
          ELSE IF r # 0
               THEN Ymd(date_str, r, IF DateAt(date_str, r, 3) THEN 3 ELSE 2, 1911)
          ELSE today
    IN  Format(FirstDate(date_str, {4}), FirstDate(date_str, {2, 3}))

\* the first index from p that holds no white space
SkipWhite(s, p) == RunEnd(s, p - 1, WhiteChars) + 1

\* where the date of "日期 : <date>" starts when the label is at s[i..]
\* (0: the pattern does not match there)
DateAfterLabel(s, i) ==
    LET AtDate(d)  == IF \E ny \in 2..4 : DateAt(s, d, ny) THEN d ELSE 0
        AtColon(c) == IF ~(c <= Len(s) /\ s[c] \in {":", "FC"}) THEN 0
                      ELSE AtDate(SkipWhite(s, c + 1))
    IN  IF ~(i + 1 <= Len(s) /\ s[i] = "RI" /\ s[i + 1] = "KI") THEN 0
        ELSE AtColon(SkipWhite(s, i + 2))

\* script A, parse_large_trader_html: the group that
\* 日期\s*[:：]\s*([0-9]{2,4}/[0-9]{2}/[0-9]{2}) captures in text (<<>>: no
\* match)
DateCapture(text) ==
    LET Capture(d) ==
          SubSeq(text, d, d + (CHOOSE n \in 2..4 : DateAt(text, d, n)) + 5)
        First(hits) ==
          IF hits = {} THEN <<>>
          ELSE Capture(DateAfterLabel(text, Least(hits)))
    IN  First({i \in 1..Len(text) : DateAfterLabel(text, i) > 0})

-----------------------------------------------------------------------------
(* HTML documents.  A document is [head, table, rows]: head is the text       *)
(* outside the table, table says whether there is a <table> element, rows are *)
(* its <tr> elements, each the sequence of the texts of its <td>/<th> cells.  *)

AllContracts == <<"SUO", "YOU", "QI", "YUE">>     \* 所有契約
Contract     == <<"QI", "YUE">>                   \* 契約
AllWord      == <<"SUO", "YOU">>                  \* 所有
Futures      == <<"KI", "HUO">>                   \* 期貨

RECURSIVE Flatten(_)
Flatten(ss) == IF ss = <<>> THEN <<>> ELSE Head(ss) \o Flatten(Tail(ss))

\* the pieces of s that are not empty, joined by newlines
RECURSIVE JoinLines(_)
JoinLines(ss) ==
    IF ss = <<>> THEN <<>>
    ELSE IF Head(ss) = <<>> THEN JoinLines(Tail(ss))
    ELSE LET rest == JoinLines(Tail(ss))
         IN  IF rest = <<>> THEN Head(ss) ELSE Head(ss) \o <<"NL">> \o rest

\* soup.get_text("\n", strip=True)
PageText(page) == JoinLines(<<page.head>> \o Flatten(page.rows))

\* the markup itself, as far as the code looks at it: whether it is the empty
\* string, and whether a word occurs in it
HtmlEmpty(page) == page.head = <<>> /\ ~page.table /\ page.rows = <<>>

HtmlHas(page, pat) ==
    \/ Contains(page.head, pat)
    \/ \E k \in 1..Len(page.rows) :
          \E c \in 1..Len(page.rows[k]) : Contains(page.rows[k][c], pat)

\* script A, parse_large_trader_html lines 160-166: the first row with cells,
\* one of which contains 所有契約 (<<>>: all_row stays None)
FirstAllRow(rows) ==
    LET First(hits) == IF hits = {} THEN <<>> ELSE rows[Least(hits)]
    IN  First({k \in 1..Len(rows) :
                  /\ rows[k] # <<>>
                  /\ \E c \in 1..Len(rows[k]) :
                        Contains(rows[k][c], AllContracts)})

\* lines 174-180 as a plausible slip would have them: sell5 read from the
\* column of buy10
RowValuesShifted(all_row) ==
    [buy5   |-> ToInt(all_row[2]),
     buy10  |-> ToInt(all_row[4]),
     sell5  |-> ToInt(all_row[4]),
     sell10 |-> ToInt(all_row[8]),
     oi     |-> ToInt(all_row[10])]

\* script A, parse_large_trader_html lines 174-180 (Python's all_row[k] is
\* all_row[k + 1] here)
RowValues(all_row) ==
    [buy5   |-> ToInt(all_row[2]),
     buy10  |-> ToInt(all_row[4]),
     sell5  |-> ToInt(all_row[6]),
     sell10 |-> ToInt(all_row[8]),
     oi     |-> ToInt(all_row[10])]

\* script A: parse_large_trader_html.  The result is [date, v], or
\* [error] for the ValueError it raises
ParseLargeTraderHtml(page, today) ==
    LET DateS(cap) == IF cap # <<>> THEN FormatYyyymmdd(cap, today) ELSE today
        Result(all_row) ==
          IF all_row = <<>> THEN [error |-> <<"no all-contracts row">>]
          ELSE IF Len(all_row) < 10
               THEN [error |-> <<"too few columns", Len(all_row)>>]
          ELSE [date |-> DateS(DateCapture(PageText(page))),
                v    |-> RowValues(all_row)]
    IN  Result(FirstAllRow(page.rows))

\* script A, fetch_one_contract lines 187-198: the record made of the values
\* v the parser returned
NormalizedData(v) ==
    [net   |-> v.buy5 - v.sell5,
     top5  |-> [buy |-> v.buy5,  sell |-> v.sell5,  net |-> v.buy5 - v.sell5],
     top10 |-> [buy |-> v.buy10, sell |-> v.sell10, net |-> v.buy10 - v.sell10],
     oi    |-> v.oi]

\* script A: fetch_one_contract lines 185-198, html being what
\* _post_large_trader returned.  The result is [date, data], or [error] for
\* the ValueError it raises
FetchOneContractFrom(html, today) ==
    LET Result(p) == IF "error" \in DOMAIN p THEN p
                     ELSE [date |-> p.date, data |-> NormalizedData(p.v)]
    IN  IF HtmlEmpty(html) THEN [error |-> <<"empty response">>]
        ELSE Result(ParseLargeTraderHtml(html, today))

-----------------------------------------------------------------------------
(* Script B: the grouped table *)

TsmcFutures    == <<"TAI", "JI", "DIAN", "KI", "HUO">>     \* 台積電期貨
HonHaiFutures  == <<"HONG", "HAI", "KI", "HUO">>           \* 鴻海期貨
WistronFutures == <<"WEI", "CHUANG", "KI", "HUO">>         \* 緯創期貨
QuantaFutures  == <<"GUANG", "DA", "KI", "HUO">>           \* 廣達期貨

\* script B: TARGETS
TARGETS ==
    <<[ticker |-> "2330", name |-> TsmcFutures,    contract |-> TsmcFutures],
      [ticker |-> "2317", name |-> HonHaiFutures,  contract |-> HonHaiFutures],
      [ticker |-> "3231", name |-> WistronFutures, contract |-> WistronFutures],
      [ticker |-> "2382", name |-> QuantaFutures,  contract |-> QuantaFutures]>>

\* script B, parse_table line 32
Want == {TARGETS[t].contract : t \in 1..Len(TARGETS)}

\* script B, parse_table line 44: the cell is taken for a contract name
IsContractName(c) ==
    /\ Contains(c, Futures)
    /\ ~Contains(c, AllWord)
    /\ ~Contains(c, Contract)
    /\ Len(c) <= 20

\* script B, parse_table line 49: the row is an "all contracts" row
IsAllContractsRow(cols) ==
    \E x \in 1..Len(cols) :
        Contains(cols[x], AllWord) /\ Contains(cols[x], Contract)

\* the first cell of cols that is taken for a contract name (<<>>: none is)
FirstName(cols) ==
    LET First(names) == IF names = {} THEN <<>> ELSE cols[Least(names)]
    IN  First({c \in 1..Len(cols) : IsContractName(cols[c])})

\* lines 43-46 as a plausible slip would have them: the name is only taken
\* while none is remembered
CurrentContractSticky(cols, current) ==
    IF current # <<>> THEN current ELSE FirstName(cols)

\* script B, parse_table lines 43-46: current_contract after the row (<<>>
\* stands for None)
CurrentContract(cols, current) ==
    LET Or(name) == IF name = <<>> THEN current ELSE name
    IN  Or(FirstName(cols))

\* script B, parse_table lines 62-72 (Python's cols[k] is cols[k + 1] here)
TableRecord(cols) ==
    LET Record(t5b, t10b, t5s, t10s) ==
          [top5  |-> [buy |-> t5b,  sell |-> t5s,  net |-> t5b - t5s],
           top10 |-> [buy |-> t10b, sell |-> t10s, net |-> t10b - t10s],
           oi    |-> FirstInt(cols[10])]
    IN  Record(FirstInt(cols[2]), FirstInt(cols[4]),
               FirstInt(cols[6]), FirstInt(cols[8]))

\* found with found[key] = val
Put(found, key, val) ==
    [k \in DOMAIN found \cup {key} |-> IF k = key THEN val ELSE found[k]]

\* script B, parse_table lines 34-72: the loop over rows[k..], with the
\* dict found and current_contract as they stand before row k
RECURSIVE ParseRows(_, _, _, _)
ParseRows(rows, k, found, current) ==
    LET Row(cols, cur) ==
          IF cols = <<>> THEN ParseRows(rows, k + 1, found, current)
          ELSE IF /\ IsAllContractsRow(cols)
                  /\ cur \in Want
                  /\ cur \notin DOMAIN found
               THEN ParseRows(rows, k + 1,
                       Put(found, cur,
                           IF Len(cols) < 10
                           THEN [error |-> <<"too few columns", Len(cols)>>]
                           ELSE TableRecord(cols)),
                       cur)
          ELSE ParseRows(rows, k + 1, found, cur)
    IN  IF k > Len(rows) THEN found
        ELSE Row(rows[k], CurrentContract(rows[k], current))

ErrorKey == <<"e", "r", "r", "o", "r">>

\* script B: parse_table.  The result is the dict it returns, a function from
\* its keys
ParseTable(page) ==
    LET Fill(found) ==
          [t \in Want \cup DOMAIN found |->
              IF t \in DOMAIN found THEN found[t]
              ELSE [error |-> <<"contract not found">>]]
    IN  IF ~page.table THEN [k \in {ErrorKey} |-> <<"no table">>]
        ELSE Fill(ParseRows(page.rows, 1, <<>>, <<>>))

-----------------------------------------------------------------------------
(* Script A: configuration, contract codes, the POST query *)

Ticker2330 == <<"2", "3", "3", "0">>
Ticker2317 == <<"2", "3", "1", "7">>
Ticker3231 == <<"3", "2", "3", "1">>
Ticker2382 == <<"2", "3", "8", "2">>

\* script A: TARGET_STOCKS
TARGET_STOCKS ==
    <<[stock |-> Ticker2330, name |-> TsmcFutures],
      [stock |-> Ticker2317, name |-> HonHaiFutures],
      [stock |-> Ticker3231, name |-> WistronFutures],
      [stock |-> Ticker2382, name |-> QuantaFutures]>>

UpperChars ==
    {"A", "B", "C", "D", "E", "F", "G", "H", "I", "J", "K", "L", "M", "N",
     "O", "P", "Q", "R", "S", "T", "U", "V", "W", "X", "Y", "Z"}

\* re.fullmatch(r"\d{4}", x)
IsTicker(x) == Len(x) = 4 /\ \A k \in 1..4 : IsDigit(x[k])

\* re.fullmatch(r"[A-Z0-9]{2,4}", x) and x.endswith("F")
IsCode(x) ==
    /\ Len(x) \in 2..4
    /\ \A k \in 1..Len(x) : x[k] \in UpperChars \cup DigitChars
    /\ x[Len(x)] = "F"

\* script A, fetch_stock_futures_contract_map lines 89-102: the loop over
\* rows[k..] with mp as it stands before row k
RECURSIVE ContractMapRows(_, _, _)
ContractMapRows(rows, k, mp) ==
    LET Row(tds, tickers, codes) ==
          IF Len(tds) < 3 \/ tickers = {} \/ codes = {}
          THEN ContractMapRows(rows, k + 1, mp)
          ELSE ContractMapRows(rows, k + 1,
                  Put(mp, tds[Least(tickers)], tds[Least(codes)]))
    IN  IF k > Len(rows) THEN mp
        ELSE Row(rows[k],
                 {c \in 1..Len(rows[k]) : IsTicker(rows[k][c])},
                 {c \in 1..Len(rows[k]) : IsCode(rows[k][c])})

\* script A, main lines 218-221: code_map for what the listing request gave
\* ("raise": the request or raise_for_status raised)
ContractMap(listing) ==
    IF listing.kind = "raise" THEN <<>>
    ELSE ContractMapRows(listing.page.rows, 1, <<>>)

\* script A, _post_large_trader lines 112-120
PayloadVariants(contract_code) ==
    <<[queryType |-> "1", commodity_id |-> contract_code],
      [queryType |-> "1", commodityId |-> contract_code],
      [queryType |-> "1", commodity_id |-> contract_code,
       commodityId |-> contract_code, goDay |-> "", dateaddcnt |-> "0",
       queryDate |-> ""],
      [queryType |-> "1", commodity_id2 |-> contract_code,
       commodity_id |-> contract_code]>>

\* line 129 as a plausible slip would have it: the status is not looked at
AcceptedAnyStatus(r) ==
    HtmlHas(r.page, AllContracts) \/ HtmlHas(r.page, Contract)

\* script A, _post_large_trader line 129: the response is taken
Accepted(r) ==
    r.ok /\ (HtmlHas(r.page, AllContracts) \/ HtmlHas(r.page, Contract))

\* script A, main lines 232-234: the item of a target without contract code
\* (<<>> stands for None)
NoCodeItem(t) ==
    [name  |-> TARGET_STOCKS[t].name,
     stock |-> TARGET_STOCKS[t].stock,
     code  |-> <<>>,
     data  |-> [error |-> <<"no contract code">>]]

\* script A, main line 240
DataItem(t, code, data) ==
    [name  |-> TARGET_STOCKS[t].name,
     stock |-> TARGET_STOCKS[t].stock,
     code  |-> code,
     data  |-> data]

\* line 242 as a plausible slip would have it: the reason is left out
ErrorItemNoReason(t, code, msg) ==
    [name  |-> TARGET_STOCKS[t].name,
     stock |-> TARGET_STOCKS[t].stock,
     code  |-> code,
     data  |-> <<>>]

\* script A, main lines 241-242: the item of a target whose
\* fetch_one_contract raised, msg being str(e)
ErrorItem(t, code, msg) ==
    [name  |-> TARGET_STOCKS[t].name,
     stock |-> TARGET_STOCKS[t].stock,
     code  |-> code,
     data  |-> [error |-> msg]]

-----------------------------------------------------------------------------
(* The documents the exchange serves, as the comments of the parsers describe *)
(* them: a row that starts with 所有契約 and carries the five figures in its  *)
(* columns 1, 3, 5, 7 and 9, written with thousands separators.               *)

MaxRows == 3        \* rows of a grouped table handed to a parser

RECURSIVE Digits(_)
Digits(n) ==
    IF n < 10 THEN <<DigitChar(n)>>
    ELSE Digits(n \div 10) \o <<DigitChar(n % 10)>>

RECURSIVE WithCommas(_)
WithCommas(ds) ==
    IF Len(ds) <= 3 THEN ds
    ELSE WithCommas(SubSeq(ds, 1, Len(ds) - 3)) \o <<",">>
           \o SubSeq(ds, Len(ds) - 2, Len(ds))

\* a figure as the exchange prints it: bare, or followed by a second figure
\* in parentheses
Figure(n, style) ==
    IF style = "bare" THEN WithCommas(Digits(n))
    ELSE WithCommas(Digits(n)) \o <<"NB", "(">> \o WithCommas(Digits(n + 1234))
           \o <<")">>

Percent == <<"4", "5", ".", "5", "%">>

\* the 所有契約 row publishing the figures f = <<buy5, buy10, sell5, sell10, oi>>
AllContractsRow(f, style) ==
    <<AllContracts,
      Figure(f[1], style), Percent, Figure(f[2], style), Percent,
      Figure(f[3], style), Percent, Figure(f[4], style), Percent,
      Figure(f[5], style)>>

HeaderRow == <<Contract, <<"B", "5">>, <<"%">>>>

BuySellFigures == {0, 3000, 5000, 8000, 12000}
OiFigures      == {0, 100000}
FigureStyles   == {"bare", "paren"}

DateLineGregorian(day) ==
    <<"RI", "KI", "FC", "2", "0", "2", "4", "/", "0", "1", "/">>
      \o <<DigitChar(day \div 10), DigitChar(day % 10)>>

DateLineRoc(day) ==
    <<"RI", "KI", ":", " ", "1", "1", "3", "/", "0", "1", "/">>
      \o <<DigitChar(day \div 10), DigitChar(day % 10)>>

\* what datetime.now().strftime("%Y%m%d") gives on day n of the model
Today(n) == 20240100 + n

\* documents with one contract and its 所有契約 row; src records the figures
\* published
FlatDocs ==
    {[head  |-> DateLineGregorian(1),
      table |-> TRUE,
      rows  |-> <<HeaderRow, <<TsmcFutures, <<"1">>, <<"2">>>>,
                  AllContractsRow(<<b5, b10, s5, s10, oi>>, st)>>,
      src   |-> <<b5, b10, s5, s10, oi>>] :
        b5 \in BuySellFigures, b10 \in BuySellFigures,
        s5 \in BuySellFigures, s10 \in BuySellFigures,
        oi \in OiFigures, st \in FigureStyles}

UmcFutures == <<"LIAN", "DIAN", "KI", "HUO">>      \* a contract not wanted

\* the rows of a grouped table: a row that announces a contract, a 所有契約
\* row, one with too few columns, a row that does both, an empty row
GroupedRows ==
    {<<c, <<"1">>, <<"2">>>> : c \in {TsmcFutures, HonHaiFutures, UmcFutures}}
      \cup {AllContractsRow(f, "paren") :
               f \in {<<12000, 8000, 5000, 3000, 100000>>,
                      <<3000, 5000, 8000, 12000, 100000>>}}
      \cup {<<AllContracts, <<"7">>>>,
            <<HonHaiFutures>> \o AllContractsRow(<<5, 6, 7, 8, 9>>, "bare"),
            <<>>}

RECURSIVE SeqsUpTo(_, _)
SeqsUpTo(S, n) ==
    IF n = 0 THEN {<<>>}
    ELSE LET shorter == SeqsUpTo(S, n - 1)
         IN  shorter \cup {Append(q, x) : q \in shorter, x \in S}

GroupedDocs ==
    {[head |-> <<>>, table |-> TRUE, rows |-> rs, src |-> <<>>] :
        rs \in SeqsUpTo(GroupedRows, MaxRows)}

EmptyDoc == [head |-> <<>>, table |-> FALSE, rows |-> <<>>, src |-> <<>>]

ParseDocs == FlatDocs \cup GroupedDocs \cup {EmptyDoc}

Pending == [state |-> "pending"]
Done(v) == [state |-> "done", out |-> v]

-----------------------------------------------------------------------------
(* The parsers applied to a document *)

NoRun == [script |-> "none", outcome |-> "none"]

InitParse ==
    /\ doc \in ParseDocs
    /\ parsedA = Pending
    /\ parsedB = Pending
    /\ file = [kind |-> "absent"]
    /\ prior = [kind |-> "absent"]
    /\ now = 1
    /\ lastRun = NoRun
    /\ pc = "idle"
    /\ code_map = <<>>
    /\ idx = 0
    /\ items = <<>>
    /\ date_out = 0
    /\ sent = <<>>
    /\ resp = [kind |-> "none"]
    /\ lastNet = "none"

\* script A: fetch_one_contract on the response doc
ApplyFetchOneContract ==
    /\ parsedA = Pending
    /\ parsedA' = Done(FetchOneContractFrom(doc, Today(now)))
    /\ UNCHANGED <<doc, parsedB, fileVars, stepVars>>

\* script B: parse_table on the response doc
ApplyParseTable ==
    /\ parsedB = Pending
    /\ parsedB' = Done(ParseTable(doc))
    /\ UNCHANGED <<doc, parsedA, fileVars, stepVars>>

NextParse == ApplyFetchOneContract \/ ApplyParseTable

SpecParse == InitParse /\ [][NextParse]_vars

-----------------------------------------------------------------------------
(* Claims about the parsers, checked under SpecParse *)

IsData(d)  == {"top5", "top10", "oi"} \subseteq DOMAIN d /\ "error" \notin DOMAIN d
IsError(d) == DOMAIN d = {"error"}

\* the record d carries the published figures f and their differences
Carries(d, f) ==
    /\ d.top5.buy = f[1]  /\ d.top10.buy = f[2]
    /\ d.top5.sell = f[3] /\ d.top10.sell = f[4]
    /\ d.oi = f[5]
    /\ d.top5.net = f[1] - f[3]
    /\ d.top10.net = f[2] - f[4]

\* C6: a record built from a located 所有契約 row of at least 10 columns has
\* top5.buy, top10.buy, top5.sell, top10.sell and oi equal to the integers
\* printed in columns 1, 3, 5, 7 and 9, and each net equal to buy - sell, also
\* when that is negative; in script A as in script B.
C6_RecordFromColumns ==
    /\ (parsedA.state = "done" /\ doc.src # <<>>) =>
          /\ "data" \in DOMAIN parsedA.out
          /\ Carries(parsedA.out.data, doc.src)
    /\ (parsedB.state = "done" /\ doc.src # <<>>) =>
          /\ IsData(parsedB.out[TsmcFutures])
          /\ Carries(parsedB.out[TsmcFutures], doc.src)
    /\ (parsedA.state = "done" /\ "data" \in DOMAIN parsedA.out) =>
          /\ parsedA.out.data.top5.net
                = parsedA.out.data.top5.buy - parsedA.out.data.top5.sell
          /\ parsedA.out.data.top10.net
                = parsedA.out.data.top10.buy - parsedA.out.data.top10.sell
    /\ (parsedB.state = "done" /\ doc.table) =>
          \A c \in Want :
              IsData(parsedB.out[c]) =>
                 /\ parsedB.out[c].top5.net
                       = parsedB.out[c].top5.buy - parsedB.out[c].top5.sell
                 /\ parsedB.out[c].top10.net
                       = parsedB.out[c].top10.buy - parsedB.out[c].top10.sell

\* the row 12,000 / 8,000 / 5,000 / 3,000 / 100,000 parsed by both scripts,
\* and a negative net
C6_Witness ==
    /\ parsedA.state = "done" /\ parsedB.state = "done"
    /\ doc.src = <<12000, 8000, 5000, 3000, 100000>>
    /\ parsedA.out.data.top5 = [buy |-> 12000, sell |-> 5000, net |-> 7000]
    /\ parsedA.out.data.top10 = [buy |-> 8000, sell |-> 3000, net |-> 5000]
    /\ parsedB.out[TsmcFutures].oi = 100000

\* the contract announced last in rows[1..j] (<<>>: none)
AnnouncedAt(rows, j) ==
    LET ns == {n \in 1..j : FirstName(rows[n]) # <<>>}
    IN  IF ns = {} THEN <<>>
        ELSE FirstName(rows[CHOOSE n \in ns : \A m \in ns : m <= n])

\* C9: in the grouped table every record script B produces for a wanted
\* contract is built from a 所有契約 row whose most recently announced
\* contract (in an earlier row or in the row itself) is that contract, and a
\* wanted contract with no such row gets an error record; script A gives an
\* error when no row contains 所有契約.
C9_AggregateRowOfContract ==
    /\ (parsedB.state = "done" /\ doc.table) =>
          \A c \in Want :
              LET own == {j \in 1..Len(doc.rows) :
                             /\ IsAllContractsRow(doc.rows[j])
                             /\ AnnouncedAt(doc.rows, j) = c}
              IN  /\ c \in DOMAIN parsedB.out
                  /\ own = {} => IsError(parsedB.out[c])
                  /\ ~IsError(parsedB.out[c]) =>
                        \E j \in own :
                            /\ Len(doc.rows[j]) >= 10
                            /\ parsedB.out[c] = TableRecord(doc.rows[j])
    /\ (parsedA.state = "done" /\ FirstAllRow(doc.rows) = <<>>) =>
          IsError(parsedA.out)

\* two contracts announced, each followed by its own 所有契約 row, and the
\* two records differ
C9_Witness ==
    /\ parsedB.state = "done"
    /\ Len(doc.rows) >= 3
    /\ IsData(parsedB.out[TsmcFutures])
    /\ IsData(parsedB.out[HonHaiFutures])
    /\ parsedB.out[TsmcFutures] # parsedB.out[HonHaiFutures]
    /\ IsError(parsedB.out[QuantaFutures])

-----------------------------------------------------------------------------
(* The history store.  The file is [kind |-> "absent"], "garbage" (not      *)
(* JSON), "other" (JSON, not an object) or "object"; an object has the set  *)
(* keys of its top-level keys, date, items and history, history being       *)
(* [t |-> "missing"], [t |-> "list", v |-> entries] or another JSON type.   *)
(* A history entry is [dict |-> TRUE, date, items] (date 0: none) or        *)
(* [dict |-> FALSE] for a value that is no object.                          *)

HistoryLimit == 7

\* script A: load_existing_history
LoadExistingHistory(f) ==
    IF f.kind # "object" THEN <<>>
    ELSE IF f.history.t = "list" THEN f.history.v
    ELSE <<>>

\* line 253 as a plausible slip would have it: what is no object stays
DedupKeepsNonDicts(history, date) ==
    LET Keep(h) == ~h.dict \/ h.date # date
    IN  SelectSeq(history, Keep)

\* line 253 as a plausible slip would have it: entries of the same date stay
DedupKeepsAll(history, date) ==
    LET IsDict(h) == h.dict
    IN  SelectSeq(history, IsDict)

\* scripts A and B, de-dup by date: [h for h in history
\*                                   if isinstance(h, dict) and h.get("date") != date]
Dedup(history, date) ==
    LET Keep(h) == h.dict /\ h.date # date
    IN  SelectSeq(history, Keep)

\* scripts A and B: history.insert(0, snapshot)
InsertFront(history, snapshot) == <<snapshot>> \o history

\* line 255 as a plausible slip would have it: history[:8]
TruncateOffByOne(history) ==
    SubSeq(history, 1, IF Len(history) < HistoryLimit + 1
                       THEN Len(history) ELSE HistoryLimit + 1)

\* scripts A and B: history[:7]
Truncate(history) ==
    SubSeq(history, 1, IF Len(history) < HistoryLimit
                       THEN Len(history) ELSE HistoryLimit)

Snapshot(date, its) == [dict |-> TRUE, date |-> date, items |-> its]

\* script A, main lines 250-257: the document written over file f
DocumentA(f, date, its) ==
    [kind    |-> "object",
     keys    |-> {"date", "items", "history"},
     date    |-> date,
     items   |-> its,
     history |-> [t |-> "list",
                  v |-> Truncate(InsertFront(
                           Dedup(LoadExistingHistory(f), date),
                           Snapshot(date, its)))]]

-----------------------------------------------------------------------------
(* One invocation of script A, request by request (SpecSteps) *)

CodeCDF == <<"C", "D", "F">>
CodeDHF == <<"D", "H", "F">>
CodeDXF == <<"D", "X", "F">>
CodeDKF == <<"D", "K", "F">>

\* what the listing request can give: an exception, the full listing, a
\* listing that lacks two of the tickers, one whose rows are too short
ListingOutcomes ==
    {[kind |-> "raise"],
     [kind |-> "response",
      page |-> [head |-> <<>>, table |-> TRUE,
                rows |-> <<<<TsmcFutures, Ticker2330, CodeCDF>>,
                           <<HonHaiFutures, Ticker2317, CodeDHF>>,
                           <<WistronFutures, Ticker3231, CodeDXF>>,
                           <<QuantaFutures, Ticker2382, CodeDKF>>>>]],
     [kind |-> "response",
      page |-> [head |-> <<>>, table |-> TRUE,
                rows |-> <<<<TsmcFutures, Ticker2330, CodeCDF>>,
                           <<HonHaiFutures, Ticker2317, <<"D", "H">>>>,
                           <<Ticker3231, CodeDXF>>,
                           <<QuantaFutures, Ticker2382, CodeDKF>>>>]]}

Figures1 == <<12000, 8000, 5000, 3000, 100000>>

GoodPage(head) ==
    [head |-> head, table |-> TRUE,
     rows |-> <<HeaderRow, AllContractsRow(Figures1, "bare")>>]

\* what a POST can give: an exception, or a response with its status and
\* body.  The report is dated the day before now (day 1), in either calendar
PostOutcomes ==
    {[kind |-> "raise"]}
      \cup {[kind |-> "response", ok |-> FALSE, page |-> GoodPage(<<>>)]}
      \cup {[kind |-> "response", ok |-> TRUE, page |-> pg] :
               pg \in {[head |-> <<>>, table |-> FALSE, rows |-> <<>>],
                       [head |-> <<"x">>, table |-> FALSE, rows |-> <<>>],
                       [head |-> <<>>, table |-> TRUE, rows |-> <<HeaderRow>>],
                       [head |-> <<>>, table |-> TRUE,
                        rows |-> <<<<AllContracts, <<"7">>>>>>],
                       GoodPage(<<>>),
                       GoodPage(DateLineGregorian(1)),
                       GoodPage(DateLineRoc(1))}}

NoResponse == [kind |-> "none"]

InitSteps ==
    /\ pc = "listing"
    /\ code_map = <<>>
    /\ idx = 0
    /\ items = <<>>
    /\ date_out = 0
    /\ sent = <<>>
    /\ resp = NoResponse
    /\ lastNet = "none"
    /\ file = [kind |-> "absent"]
    /\ prior = [kind |-> "absent"]
    /\ now = 2
    /\ lastRun = NoRun
    /\ doc = EmptyDoc
    /\ parsedA = Pending
    /\ parsedB = Pending

\* main lines 218-224: the listing request, code_map, items = [], date_out = None
GetListing ==
    /\ pc = "listing"
    /\ \E listing \in ListingOutcomes : code_map' = ContractMap(listing)
    /\ lastNet' = "request"
    /\ items' = <<>>
    /\ date_out' = 0
    /\ idx' = 1
    /\ pc' = "target"
    /\ UNCHANGED <<sent, resp, fileVars, parseVars>>

\* main lines 226-235: the next target, its contract code looked up
NextTarget ==
    /\ pc = "target"
    /\ idx <= Len(TARGET_STOCKS)
    /\ IF TARGET_STOCKS[idx].stock \in DOMAIN code_map
       THEN /\ pc' = "post"
            /\ sent' = <<>>
            /\ resp' = NoResponse
            /\ UNCHANGED <<items, idx>>
       ELSE /\ items' = Append(items, NoCodeItem(idx))
            /\ idx' = idx + 1
            /\ UNCHANGED <<pc, sent, resp>>
    /\ UNCHANGED <<code_map, date_out, lastNet, fileVars, parseVars>>

\* _post_large_trader lines 122-133: one turn of the loop over payload_variants,
\* the next payload POSTed; an exception of the request leaves
\* fetch_one_contract and is caught by main (lines 241-242)
PostVariant ==
    /\ pc = "post"
    /\ Len(sent) < Len(PayloadVariants(code_map[TARGET_STOCKS[idx].stock]))
    /\ LET code    == code_map[TARGET_STOCKS[idx].stock]
           payload == PayloadVariants(code)[Len(sent) + 1]
       IN  /\ sent' = Append(sent, payload)
           /\ lastNet' = "request"
           /\ \E r \in PostOutcomes :
                 IF r.kind = "raise"
                 THEN /\ items' = Append(items,
                                         ErrorItem(idx, code, <<"request failed">>))
                      /\ idx' = idx + 1
                      /\ pc' = "target"
                      /\ resp' = NoResponse
                 ELSE /\ resp' = r
                      /\ pc' = IF Accepted(r) \/ Len(sent) + 1 = Len(PayloadVariants(code))
                               THEN "parse" ELSE "post"
                      /\ UNCHANGED <<items, idx>>
    /\ UNCHANGED <<code_map, date_out, fileVars, parseVars>>

\* fetch_one_contract lines 185-198 on the text _post_large_trader returned,
\* and main lines 239-242
ParseResponse ==
    /\ pc = "parse"
    /\ \E got \in {FetchOneContractFrom(resp.page, Today(now))} :
          /\ items' = Append(items,
                         IF "error" \in DOMAIN got
                         THEN ErrorItem(idx, code_map[TARGET_STOCKS[idx].stock],
                                        got.error)
                         ELSE DataItem(idx, code_map[TARGET_STOCKS[idx].stock],
                                       got.data))
          /\ date_out' = IF "error" \in DOMAIN got \/ date_out # 0
                         THEN date_out ELSE got.date
    /\ idx' = idx + 1
    /\ pc' = "target"
    /\ UNCHANGED <<code_map, sent, resp, lastNet, fileVars, parseVars>>

\* main lines 244-260: the loop is over; date_out, the history, the file written
WriteOutput ==
    /\ pc = "target"
    /\ idx > Len(TARGET_STOCKS)
    /\ LET date == IF date_out # 0 THEN date_out ELSE Today(now)
       IN  /\ date_out' = date
           /\ file' = DocumentA(file, date, items)
    /\ prior' = file
    /\ lastRun' = [script |-> "A", outcome |-> "written"]
    /\ pc' = "done"
    /\ UNCHANGED <<code_map, idx, items, sent, resp, lastNet, now, parseVars>>

NextSteps ==
    \/ GetListing
    \/ NextTarget
    \/ PostVariant
    \/ ParseResponse
    \/ WriteOutput

SpecSteps == InitSteps /\ [][NextSteps]_vars

-----------------------------------------------------------------------------
(* Claims about one invocation of script A, checked under SpecSteps *)

WellFormedItem(it, t) ==
    /\ it.name = TARGET_STOCKS[t].name
    /\ it.stock = TARGET_STOCKS[t].stock
    /\ IsData(it.data) # IsError(it.data)
    /\ IF TARGET_STOCKS[t].stock \in DOMAIN code_map
       THEN it.code = code_map[TARGET_STOCKS[t].stock]
       ELSE it.code = <<>> /\ it.data = [error |-> <<"no contract code">>]

\* the run is over, or the guard of one of its steps holds
CanStep ==
    \/ pc = "done"
    \/ pc = "listing"
    \/ pc = "target" /\ idx \in 1..(Len(TARGET_STOCKS) + 1)
    \/ /\ pc = "post"
       /\ idx \in 1..Len(TARGET_STOCKS)
       /\ TARGET_STOCKS[idx].stock \in DOMAIN code_map
       /\ Len(sent) < 4
    \/ /\ pc = "parse"
       /\ idx \in 1..Len(TARGET_STOCKS)
       /\ TARGET_STOCKS[idx].stock \in DOMAIN code_map
       /\ resp.kind = "response"

\* how far the run has come: every step takes it further, and it ends at 60
Progress ==
    10 * (IF pc = "listing" THEN 0 ELSE IF pc = "done" THEN 6 ELSE idx)
      + (IF pc = "post" THEN 1 + Len(sent) ELSE IF pc = "parse" THEN 6 ELSE 0)

C4_Items ==
    /\ pc \in {"target", "post", "parse"} => Len(items) = idx - 1
    /\ \A t \in 1..Len(items) : WellFormedItem(items[t], t)
    /\ CanStep
    /\ pc = "done" =>
          /\ Len(items) = Len(TARGET_STOCKS)
          /\ file.kind = "object"
          /\ file.items = items
          /\ file.date # 0

\* C4: whatever the listing request and the requests of each target give, the
\* run goes on until the document is written; the document holds one item per
\* configured target, in the configured order, each with a data record or an
\* error record and never both; an item once recorded is not changed by what
\* happens to a later target.
C4_OneItemPerTarget ==
    /\ []C4_Items
    /\ [][/\ Len(items') <= Len(items) + 1
          /\ SubSeq(items', 1, Len(items)) = items
          /\ Progress' > Progress]_vars

\* the run is over; the request of target 2 raised and the others succeeded
C4_Witness ==
    /\ pc = "done"
    /\ file.items[2].data = [error |-> <<"request failed">>]
    /\ \A t \in {1, 3, 4} : IsData(file.items[t].data)

\* the response is successful and contains the marker text
Marked(r) == r.kind = "response" /\ r.ok /\ HtmlHas(r.page, Contract)

\* C5: for one contract code the payload variants are POSTed in their listed
\* order, one request each; after a response that is successful and contains
\* the marker no further request is sent and that response is what is parsed;
\* with no such response the loop ends after the 4th variant and the last
\* response is what is parsed: 1 to 4 requests.
C5_VariantsInOrder ==
    /\ pc \in {"post", "parse"} =>
          LET pv == PayloadVariants(code_map[TARGET_STOCKS[idx].stock])
          IN  /\ Len(sent) <= 4
              /\ sent = SubSeq(pv, 1, Len(sent))
    /\ pc = "post" => Len(sent) < 4 /\ (sent # <<>> => ~Marked(resp))
    /\ pc = "parse" =>
          /\ Len(sent) >= 1
          /\ resp.kind = "response"
          /\ Marked(resp) \/ Len(sent) = 4

\* the third variant was accepted
C5_Witness == pc = "parse" /\ Len(sent) = 3 /\ Marked(resp)

\* a step that sends a request to the exchange
IsRequestStep ==
    \/ pc = "listing" /\ pc' # "listing"
    \/ pc = "post" /\ Len(sent') = Len(sent) + 1

\* C7: no request is sent right after the previous one: between any two
\* consecutive requests of a run there is a pause.
C7_PauseBetweenRequests == [][IsRequestStep => lastNet # "request"]_vars

-----------------------------------------------------------------------------
(* Whole runs of the two scripts on the file (Spec, SpecFresh) *)

\* script A: _post_large_trader, outs[k] being what the k-th request gives.
\* The result is [kind |-> "text", page] or [kind |-> "raise"]
RECURSIVE PostLargeTrader(_, _)
PostLargeTrader(outs, k) ==
    IF outs[k].kind = "raise" THEN [kind |-> "raise"]
    ELSE IF Accepted(outs[k]) \/ k = 4 THEN [kind |-> "text", page |-> outs[k].page]
    ELSE PostLargeTrader(outs, k + 1)

\* script A: fetch_one_contract, with the exception of a request turned into
\* the error record main makes of it
FetchOneContract(outs, today) ==
    LET Of(html) == IF html.kind = "raise" THEN [error |-> <<"request failed">>]
                    ELSE FetchOneContractFrom(html.page, today)
    IN  Of(PostLargeTrader(outs, 1))

\* script A, main lines 227-242: the item of target t, cm being code_map and
\* got what fetch_one_contract gives for it
ItemA(t, cm, got) ==
    IF TARGET_STOCKS[t].stock \notin DOMAIN cm THEN NoCodeItem(t)
    ELSE IF "error" \in DOMAIN got
         THEN ErrorItem(t, cm[TARGET_STOCKS[t].stock], got.error)
    ELSE DataItem(t, cm[TARGET_STOCKS[t].stock], got.data)

\* script A, main lines 223-242: items and date_out after the loop, got[t]
\* being what fetch_one_contract gives for target t.  date_out is the date of
\* the first target that succeeded (0: none did)
AfterLoop(cm, got) ==
    LET good == {t \in 1..Len(TARGET_STOCKS) :
                    /\ TARGET_STOCKS[t].stock \in DOMAIN cm
                    /\ "error" \notin DOMAIN got[t]}
    IN  [items    |-> [t \in 1..Len(TARGET_STOCKS) |-> ItemA(t, cm, got[t])],
         date_out |-> IF good = {} THEN 0 ELSE got[Least(good)].date]

\* script A, main lines 214-242 when the listing request gives in.listing and
\* the requests of target t give in.posts[t]
Fetched(in, today) ==
    AfterLoop(ContractMap(in.listing),
              [t \in 1..Len(TARGET_STOCKS) |->
                  FetchOneContract(in.posts[t], today)])

\* script A, main lines 244-260: the document written over file f, r being
\* items and date_out after the loop
WrittenA(f, today, r) ==
    DocumentA(f, IF r.date_out # 0 THEN r.date_out ELSE today, r.items)

\* script B, main lines 119-127: history as loaded, a JSON value
LoadHistoryB(f) ==
    IF f.kind # "object" \/ f.history.t = "missing" THEN [t |-> "list", v |-> <<>>]
    ELSE f.history

\* script B, main lines 98-107
ItemsB(page) ==
    LET Of(found) ==
          [t \in 1..Len(TARGETS) |->
              [ticker |-> TARGETS[t].ticker,
               name   |-> TARGETS[t].name,
               data   |-> IF TARGETS[t].contract \in DOMAIN found
                          THEN found[TARGETS[t].contract]
                          ELSE [error |-> <<"unknown error">>]]]
    IN  Of(ParseTable(page))

\* script B: main.  The file after a run over file f when the request gives
\* got and lines 98-107 make its of the page.  Iterating a string or an
\* object yields no dict, so the comprehension of line 130 gives []; iterating
\* null or a number raises TypeError, which nothing catches: the run dies and
\* the file stays as it is
MainB(f, today, got, its) ==
    IF got.kind = "raise"
    THEN [kind    |-> "object",
          keys    |-> {"date", "items", "error"},
          date    |-> today,
          items   |-> <<>>,
          history |-> [t |-> "missing"]]
    ELSE LET loaded == LoadHistoryB(f)
         IN  IF loaded.t \in {"null", "number"} THEN f
             ELSE [kind    |-> "object",
                   keys    |-> {"date", "items", "update_time", "history"},
                   date    |-> today,
                   items   |-> its,
                   history |->
                      [t |-> "list",
                       v |-> Truncate(InsertFront(
                                Dedup(IF loaded.t = "list" THEN loaded.v ELSE <<>>,
                                      today),
                                Snapshot(today, its)))]]

MaxDay   == 3       \* days the clock runs through
MaxPrior == 8       \* old entries of a history list found in a prior file

FullListing ==
    [kind |-> "response",
     page |-> [head |-> <<>>, table |-> TRUE,
               rows |-> <<<<TsmcFutures, Ticker2330, CodeCDF>>,
                          <<HonHaiFutures, Ticker2317, CodeDHF>>,
                          <<WistronFutures, Ticker3231, CodeDXF>>,
                          <<QuantaFutures, Ticker2382, CodeDKF>>>>]]

Raise    == [kind |-> "raise"]
Ok(pg)   == [kind |-> "response", ok |-> TRUE, page |-> pg]
Busy     == [kind |-> "response", ok |-> FALSE,
             page |-> [head |-> <<"x">>, table |-> FALSE, rows |-> <<>>]]

\* what the network gives a run of script A on day n: the listing fails; or
\* the report of day n or of the day before is served, dated in either
\* calendar, at once to targets 1 and 4, at the third request to target 3,
\* and the request of target 2 raises
InputsA(n) ==
    {[listing |-> Raise, posts |-> <<<<Raise>>, <<Raise>>, <<Raise>>, <<Raise>>>>]}
      \cup {[listing |-> FullListing,
             posts   |-> <<<<Ok(GoodPage(line))>>,
                           <<Raise>>,
                           <<Busy, Busy, Ok(GoodPage(line))>>,
                           <<Ok(GoodPage(line))>>>>] :
               line \in UNION {{DateLineGregorian(d), DateLineRoc(d)} :
                                  d \in {e \in {n - 1, n} : e >= 1}}}

\* Fetched for every day and input of the model
FetchedOn ==
    [n \in 1..(MaxDay + 1) |-> {Fetched(in, Today(n)) : in \in InputsA(n)}]

\* the grouped table of script B: one contract with its 所有契約 row, one
\* whose row is too short
GroupedPage ==
    [head |-> <<>>, table |-> TRUE,
     rows |-> <<<<TsmcFutures, <<"1">>, <<"2">>>>,
                AllContractsRow(Figures1, "paren"),
                <<HonHaiFutures, <<"1">>, <<"2">>>>,
                <<AllContracts, <<"7">>>>>>]

InputsB == {Raise, [kind |-> "response", page |-> GroupedPage]}

\* ItemsB for every page of the model
ItemsBOf == [got \in InputsB |-> IF got.kind = "raise" THEN <<>> ELSE ItemsB(got.page)]

OldDate(k) == 20231232 - k      \* 2023-12-31, 2023-12-30, ...

\* entries found in a prior file: something that is no object, an entry with
\* no date, one dated day 1, old ones
OddEntries ==
    {[dict |-> FALSE],
     [dict |-> TRUE, date |-> 0, items |-> <<>>],
     [dict |-> TRUE, date |-> Today(1), items |-> <<>>]}

OldEntries(n) == [k \in 1..n |-> [dict |-> TRUE, date |-> OldDate(k), items |-> <<>>]]

\* history lists found in a prior file: up to MaxPrior old entries, newest
\* first, with up to two odd entries before or after them
PriorLists ==
    LET odd == SeqsUpTo(OddEntries, 2)
    IN  {a \o OldEntries(n) : a \in odd, n \in 0..MaxPrior}
          \cup {OldEntries(n) \o a : a \in odd, n \in 0..MaxPrior}

PriorObject(h) ==
    [kind |-> "object", keys |-> {"date", "items", "history"},
     date |-> OldDate(1), items |-> <<>>, history |-> h]

\* the states docs/futures_data.json may be found in
PriorFiles ==
    {[kind |-> k] : k \in {"absent", "garbage", "other"}}
      \cup {PriorObject([t |-> ty]) :
               ty \in {"missing", "null", "number", "string", "object"}}
      \cup {PriorObject([t |-> "list", v |-> l]) : l \in PriorLists}

Idle ==
    /\ pc = "idle"
    /\ code_map = <<>>
    /\ idx = 0
    /\ items = <<>>
    /\ date_out = 0
    /\ sent = <<>>
    /\ resp = NoResponse
    /\ lastNet = "none"
    /\ doc = EmptyDoc
    /\ parsedA = Pending
    /\ parsedB = Pending

Init ==
    /\ file \in PriorFiles
    /\ prior = file
    /\ now = 1
    /\ lastRun = NoRun
    /\ Idle

InitFresh ==
    /\ file = [kind |-> "absent"]
    /\ prior = file
    /\ now = 1
    /\ lastRun = NoRun
    /\ Idle

\* a day passes
Tick ==
    /\ now < MaxDay
    /\ now' = now + 1
    /\ UNCHANGED <<file, prior, lastRun, stepVars, parseVars>>

\* script A runs
RunA ==
    /\ \E r \in FetchedOn[now] : file' = WrittenA(file, Today(now), r)
    /\ prior' = file
    /\ lastRun' = [script |-> "A", outcome |-> "written"]
    /\ UNCHANGED <<now, stepVars, parseVars>>

\* script B runs
RunB ==
    /\ \E got \in InputsB :
          /\ file' = MainB(file, Today(now), got, ItemsBOf[got])
          /\ lastRun' =
                [script  |-> "B",
                 outcome |-> IF got.kind = "raise" THEN "fetch failed"
                             ELSE IF LoadHistoryB(file).t \in {"null", "number"}
                                  THEN "died"
                             ELSE "written"]
    /\ prior' = file
    /\ UNCHANGED <<now, stepVars, parseVars>>

\* script A is the only one run
NextA == Tick \/ RunA

Next == Tick \/ RunA \/ RunB

Spec == Init /\ [][Next]_vars

SpecFresh == InitFresh /\ [][Next]_vars

SpecFreshA == InitFresh /\ [][NextA]_vars

-----------------------------------------------------------------------------
(* Claims about the history store, checked under Spec, SpecFresh, SpecFreshA *)

\* the most recent run wrote a document with a history
Merged == lastRun.outcome = "written"

\* the history list of the file ([] when it holds none)
Hist == LoadExistingHistory(file)

\* the entries the most recent run found in the file that are objects and
\* are dated otherwise than the document it wrote, in their order
Kept ==
    LET old     == LoadExistingHistory(prior)
        Keep(h) == h.dict /\ h.date # file.date
    IN  SelectSeq(old, Keep)

\* C1: from any prior file, after every run the history has at most 7
\* entries, and a merge drops entries from the back only: the entries after
\* the new one are the first entries of the ones kept from the file, in their
\* order, and all of them while there is room.
C1_AtMostSevenDropBack ==
    /\ lastRun # NoRun => Len(Hist) <= HistoryLimit
    /\ Merged =>
          /\ Hist # <<>>
          /\ Tail(Hist) = SubSeq(Kept, 1, Len(Hist) - 1)
          /\ Len(Hist) < HistoryLimit => Len(Hist) = Len(Kept) + 1

\* a run found 8 entries to keep and wrote 7: the new one and the first 6
C1_Witness ==
    /\ Merged
    /\ Len(Kept) = 8
    /\ Len(Hist) = 7
    /\ Hist[7] = Kept[6]
    /\ Hist[1].date = file.date

NoDupDates(h) ==
    \A i, j \in 1..Len(h) : i # j => h[i].date # h[j].date

\* C2: from an absent file, after any sequence of runs no two entries of the
\* history have the same date; a run whose date is already in the history it
\* finds writes a history of the same length, with the new entry at the
\* front and the old entry of that date gone.
C2_OneEntryPerDate ==
    /\ NoDupDates(Hist)
    /\ (Merged /\ \E i \in 1..Len(LoadExistingHistory(prior)) :
                     LoadExistingHistory(prior)[i].date = file.date) =>
          /\ Len(Hist) = Len(LoadExistingHistory(prior))
          /\ Hist[1] = Snapshot(file.date, file.items)
          /\ \A i \in 2..Len(Hist) : Hist[i].date # file.date

\* a run replaced the entry of its date by one with other items, in a
\* history of two
C2_Witness ==
    /\ Merged
    /\ Len(LoadExistingHistory(prior)) = 2
    /\ LoadExistingHistory(prior)[2].date = file.date
    /\ LoadExistingHistory(prior)[2].items # file.items
    /\ Len(Hist) = 2
    /\ Hist[1].items = file.items

\* C3: from an absent file, after any sequence of runs of script A the dates
\* of the history entries strictly decrease from the front to the back.
C3_NewestFirst ==
    \A i, j \in 1..Len(Hist) : i < j => Hist[i].date > Hist[j].date

\* the file as the run found it holds no history list
Malformed(f) ==
    \/ f.kind \in {"absent", "garbage", "other"}
    \/ f.kind = "object" /\ f.history.t # "list"

\* C8: a run of script A that finds the file absent, not JSON, not an object
\* or with a history that is not a list writes a document whose history is
\* the one-element list of its snapshot; an entry of a loaded history that is
\* not an object is in no written history.
C8_MalformedPriorIsEmpty ==
    /\ (lastRun.script = "A" /\ Malformed(prior)) =>
          /\ file.kind = "object"
          /\ file.history = [t |-> "list",
                             v |-> <<Snapshot(file.date, file.items)>>]
    /\ lastRun.script = "A" =>
          /\ Merged
          /\ \A i \in 1..Len(Hist) : Hist[i].dict

\* script A ran on a file whose history is null
C8_Witness ==
    /\ lastRun.script = "A"
    /\ prior.kind = "object"
    /\ prior.history.t = "null"
    /\ Len(Hist) = 1

\* C10: every document a run writes has a history that is not empty and whose
\* first entry is the snapshot of the run, date and items as at the top of
\* the document, also when fetching fails; so a run drops no entry it found
\* but the one of its date and those pushed past position 7.
C10_HistoryStartsWithSnapshot ==
    lastRun.outcome \in {"written", "fetch failed"} =>
        /\ file.kind = "object"
        /\ file.history.t = "list"
        /\ file.history.v # <<>>
        /\ file.history.v[1] = Snapshot(file.date, file.items)
        /\ Tail(file.history.v) = SubSeq(Kept, 1, Len(file.history.v) - 1)

=============================================================================
